---------------------------- MODULE Spec2Model ----------------------------
(***************************************************************************)
(* A model of the redditsearch scaffolding:                                *)
(*   src/src/utils/logger.py    setup_logger and the module-level logger   *)
(*   src/src/config/settings.py Settings and get_settings                  *)
(* together with the parts of the standard logging registry and of the     *)
(* settings loader that these two modules drive.                           *)
(*                                                                         *)
(* Text (logger names, environment values) is a sequence of one-character  *)
(* strings, so that prefix tests and parsing are computed, not assumed.    *)
(***************************************************************************)
EXTENDS Integers, Sequences, FiniteSets, TLC

VARIABLES
    loggerDict,   \* logging.Logger.manager.loggerDict: name -> entry
    heap,         \* the logger objects; a handle is an index, heap[1] is root
    returned,     \* history: per requested name, the handles setup_logger returned
    lastLevel,    \* history: per requested name, the level of the latest call
    lastByHandle, \* history: per returned handle, the level of the latest call
    ncalls,       \* history: number of setup_logger calls made after module load
    console,      \* the outcome of the latest logged message
    pc,           \* per thread: position inside setup_logger
    local,        \* per thread: the locals of its setup_logger frame
    env,          \* os.environ: key -> text
    dotenv,       \* the .env file: whether it exists, and its lines in
                  \* order, each a key and the text written after KEY=
    snaps,        \* history: per get_settings call, its inputs and its outcome
    nmut          \* history: number of changes made to env and .env

logVars == <<loggerDict, heap, returned, lastLevel, lastByHandle, ncalls,
            console>>
thrVars == <<pc, local>>
cfgVars == <<env, dotenv, snaps, nmut>>

-----------------------------------------------------------------------------
(* Bounds *)

MaxCalls == 3
NThreads == 2
MaxEntries == 2
MaxMutations == 2
MaxSnapshots == 2

-----------------------------------------------------------------------------
(* Text helpers *)

RECURSIVE Join(_)
Join(cs) == IF cs = <<>> THEN "" ELSE Head(cs) \o Join(Tail(cs))

\* s[:n] of Python: the first n characters, or all of s when it is shorter.
Slice(s, n) == SubSeq(s, 1, IF n < Len(s) THEN n ELSE Len(s))

\* 1-based position of the last "." among s[1..hi], 0 when there is none.
RECURSIVE RFindDot(_, _)
RFindDot(s, hi) ==
    IF hi < 1 THEN 0
    ELSE IF s[hi] = "." THEN hi
    ELSE RFindDot(s, hi - 1)

-----------------------------------------------------------------------------
(* json.loads on texts over the alphabet  [ ] " , space a b x n u l 0..9 :   *)
(* strings without escapes, unsigned integers, null, and lists of values.   *)
(* A value read from .env may also hold line ends, "=" and the letters of   *)
(* keys, none of them next to a digit.                                      *)

Digits == {"0", "1", "2", "3", "4", "5", "6", "7", "8", "9"}
Spaces == {" ", "\n"}

JFail == [ok |-> FALSE, val |-> [t |-> "none"], next |-> 0]
JOk(v, n) == [ok |-> TRUE, val |-> v, next |-> n]

RECURSIVE SkipSpaces(_, _)
SkipSpaces(s, i) ==
    IF i <= Len(s) /\ s[i] \in Spaces THEN SkipSpaces(s, i + 1) ELSE i

\* The characters of a string literal from position i up to its closing quote;
\* a line end inside the literal is refused.
RECURSIVE ParseString(_, _, _)
ParseString(s, i, acc) ==
    IF i > Len(s) \/ s[i] \in {"\\", "\n"} THEN JFail
    ELSE IF s[i] = "\"" THEN JOk([t |-> "str", v |-> Join(acc)], i + 1)
    ELSE ParseString(s, i + 1, Append(acc, s[i]))

RECURSIVE DigitsEnd(_, _)
DigitsEnd(s, i) ==
    IF i <= Len(s) /\ s[i] \in Digits THEN DigitsEnd(s, i + 1) ELSE i

\* An unsigned integer; a leading zero ends the number.
ParseNumber(s, i) ==
    LET e == IF s[i] = "0" THEN i + 1 ELSE DigitsEnd(s, i)
    IN  JOk([t |-> "num", v |-> Join(SubSeq(s, i, e - 1))], e)

ParseLiteral(s, i, word, v) ==
    IF i + Len(word) - 1 <= Len(s) /\ SubSeq(s, i, i + Len(word) - 1) = word
    THEN JOk(v, i + Len(word))
    ELSE JFail

RECURSIVE ParseValue(_, _)
RECURSIVE ParseItems(_, _, _)

\* The items of a list after "[" or ",": a value, then "," or "]".
ParseItems(s, i, acc) ==
    LET r == ParseValue(s, i)
        j == SkipSpaces(s, r.next)
    IN  IF ~r.ok \/ j > Len(s) THEN JFail
        ELSE IF s[j] = "]"
        THEN JOk([t |-> "list", v |-> Append(acc, r.val)], j + 1)
        ELSE IF s[j] = ","
        THEN ParseItems(s, j + 1, Append(acc, r.val))
        ELSE JFail

ParseValue(s, i0) ==
    LET i == SkipSpaces(s, i0)
    IN  IF i > Len(s) THEN JFail
        ELSE IF s[i] = "\"" THEN ParseString(s, i + 1, <<>>)
        ELSE IF s[i] \in Digits THEN ParseNumber(s, i)
        ELSE IF s[i] = "n"
        THEN ParseLiteral(s, i, <<"n", "u", "l", "l">>, [t |-> "null"])
        ELSE IF s[i] = "["
        THEN LET j == SkipSpaces(s, i + 1)
             IN  IF j <= Len(s) /\ s[j] = "]"
                 THEN JOk([t |-> "list", v |-> <<>>], j + 1)
                 ELSE ParseItems(s, i + 1, <<>>)
        ELSE JFail

\* json.loads(s): the value, or ok = FALSE where json raises ValueError.
JsonLoads(s) ==
    LET r == ParseValue(s, 1)
    IN  IF r.ok /\ SkipSpaces(s, r.next) > Len(s)
        THEN [ok |-> TRUE, val |-> r.val]
        ELSE [ok |-> FALSE, val |-> [t |-> "none"]]

-----------------------------------------------------------------------------
(* Logger names and levels *)

INFO == 20
Levels == {0, 10, INFO, 40}
MsgLevels == {10, INFO, 40}

RootName == <<"r", "o", "o", "t">>
DefaultName == <<"r", "e", "d", "d", "i", "t", "s", "e", "a", "r", "c", "h">>
ChildName == DefaultName \o <<".", "a", "p", "i">>
AppName == <<"a", "p", "p">>
AppDbName == <<"a", "p", "p", ".", "d", "b">>
RichName == <<"r", "i", "c", "h">>

LoggerNames ==
    {<<>>, RootName, DefaultName, ChildName, AppName, AppDbName, RichName}

ROOT == 1
NoParent == 0

NewLogger(name, level) ==
    [name |-> name, level |-> level, parent |-> NoParent,
     propagate |-> TRUE, handlers |-> <<>>]


-----------------------------------------------------------------------------
(* The logging registry: logging.getLogger and Manager.getLogger *)

\* d[k] = v of a Python dict.
Put(d, k, v) == [x \in (DOMAIN d) \cup {k} |-> IF x = k THEN v ELSE d[x]]

PlaceHolder(ids) == [ph |-> TRUE, id |-> 0, loggerMap |-> ids]
LoggerEntry(id) == [ph |-> FALSE, id |-> id, loggerMap |-> {}]

\* The while loop of Manager._fixupParents; p is the 1-based position of the
\* dot under inspection (Python's i + 1). Yields the dictionary with the
\* placeholders added and rv, the nearest ancestor logger (0: none found).
RECURSIVE FixupParentsLoop(_, _, _, _)
FixupParentsLoop(dict, name, p, aid) ==
    IF p <= 1 THEN [dict |-> dict, rv |-> 0]
    ELSE LET substr == SubSeq(name, 1, p - 1)
             next == RFindDot(name, p - 2)
         IN  IF substr \notin DOMAIN dict
             THEN FixupParentsLoop(Put(dict, substr, PlaceHolder({aid})),
                                   name, next, aid)
             ELSE IF ~dict[substr].ph
             THEN [dict |-> dict, rv |-> dict[substr].id]
             ELSE FixupParentsLoop(
                      Put(dict, substr,
                          [dict[substr] EXCEPT !.loggerMap = @ \cup {aid}]),
                      name, next, aid)

\* Manager._fixupParents(alogger)
FixupParents(dict, hp, aid) ==
    LET name == hp[aid].name
        r == FixupParentsLoop(dict, name, RFindDot(name, Len(name)), aid)
        rv == IF r.rv = 0 THEN ROOT ELSE r.rv
    IN  [dict |-> r.dict, heap |-> [hp EXCEPT ![aid].parent = rv]]

\* Manager._fixupChildren(ph, alogger): the loop over ph.loggerMap
RECURSIVE FixupChildren(_, _, _)
FixupChildren(hp, cs, aid) ==
    IF cs = {} THEN hp
    ELSE LET c == CHOOSE x \in cs : TRUE
             name == hp[aid].name
             hp1 == IF Slice(hp[hp[c].parent].name, Len(name)) # name
                    THEN [hp EXCEPT ![aid].parent = hp[c].parent,
                                    ![c].parent = aid]
                    ELSE hp
         IN  FixupChildren(hp1, cs \ {c}, aid)

\* Manager.getLogger(name): get or create, under the module lock.
ManagerGetLogger(dict, hp, name) ==
    IF name \in DOMAIN dict /\ ~dict[name].ph
    THEN [dict |-> dict, heap |-> hp, rv |-> dict[name].id]
    ELSE LET aid == Len(hp) + 1
             hp1 == Append(hp, NewLogger(name, 0))
             d1 == Put(dict, name, LoggerEntry(aid))
             hp2 == IF name \in DOMAIN dict
                    THEN FixupChildren(hp1, dict[name].loggerMap, aid)
                    ELSE hp1
             f == FixupParents(d1, hp2, aid)
         IN  [dict |-> f.dict, heap |-> f.heap, rv |-> aid]

\* logging.getLogger(name): the empty name and root's own name give root.
GetLogger(dict, hp, name) ==
    IF name = <<>> \/ name = hp[ROOT].name
    THEN [dict |-> dict, heap |-> hp, rv |-> ROOT]
    ELSE ManagerGetLogger(dict, hp, name)

\* Logger.setLevel(level)
SetLevel(hp, id, level) == [hp EXCEPT ![id].level = level]

\* RichHandler(...): a handler with the default level NOTSET.
RichHandler == [level |-> 0]

\* Logger.addHandler(hdlr) for a handler object that is not yet attached.
AddHandler(hp, id, hdlr) == [hp EXCEPT ![id].handlers = Append(@, hdlr)]

\* Variant: the guard against a second handler is missing.
HasHandlersNever(hp, id) == FALSE

\* The test "if logger.handlers" of setup_logger.
HasHandlers(hp, id) == hp[id].handlers # <<>>

\* Variant: the level is set only on the path that attaches the handler.
SetupLoggerLevelOnCreate(dict, hp, name, level) ==
    LET g == GetLogger(dict, hp, name)
    IN  IF HasHandlers(g.heap, g.rv)
        THEN [dict |-> g.dict, heap |-> g.heap, rv |-> g.rv]
        ELSE [dict |-> g.dict,
              heap |-> AddHandler(SetLevel(g.heap, g.rv, level), g.rv,
                                  RichHandler),
              rv |-> g.rv]

\* setup_logger(name, level) run to completion by one caller.
SetupLoggerResult(dict, hp, name, level) ==
    LET g == GetLogger(dict, hp, name)
        hp1 == SetLevel(g.heap, g.rv, level)
    IN  IF HasHandlers(hp1, g.rv)
        THEN [dict |-> g.dict, heap |-> hp1, rv |-> g.rv]
        ELSE [dict |-> g.dict, heap |-> AddHandler(hp1, g.rv, RichHandler),
              rv |-> g.rv]

-----------------------------------------------------------------------------
(* Emitting a record: Logger.isEnabledFor, getEffectiveLevel, callHandlers *)

RECURSIVE GetEffectiveLevel(_, _)
GetEffectiveLevel(hp, id) ==
    IF id = NoParent THEN 0
    ELSE IF hp[id].level # 0 THEN hp[id].level
    ELSE GetEffectiveLevel(hp, hp[id].parent)

\* manager.disable is 0, so only the effective level decides.
IsEnabledFor(hp, id, lvl) == 0 < lvl /\ lvl >= GetEffectiveLevel(hp, id)

\* The handlers of one logger that accept the record.
RECURSIVE Accepting(_, _)
Accepting(hs, lvl) ==
    IF hs = <<>> THEN 0
    ELSE (IF lvl >= Head(hs).level THEN 1 ELSE 0) + Accepting(Tail(hs), lvl)

\* The loop of Logger.callHandlers: [found, handled] over the hierarchy.
RECURSIVE WalkHandlers(_, _, _)
WalkHandlers(hp, c, lvl) ==
    IF c = NoParent THEN [found |-> 0, handled |-> 0]
    ELSE LET rest == IF hp[c].propagate
                     THEN WalkHandlers(hp, hp[c].parent, lvl)
                     ELSE [found |-> 0, handled |-> 0]
         IN  [found |-> Len(hp[c].handlers) + rest.found,
              handled |-> Accepting(hp[c].handlers, lvl) + rest.handled]

\* Logger.callHandlers(record): the number of lines written; with no handler
\* anywhere the last-resort handler (level WARNING) writes the line.
CallHandlers(hp, id, lvl) ==
    LET w == WalkHandlers(hp, id, lvl)
    IN  IF w.found = 0 THEN (IF lvl >= 30 THEN 1 ELSE 0) ELSE w.handled

\* logger.log(lvl, msg): the number of console lines it produces.
Emit(hp, id, lvl) ==
    IF IsEnabledFor(hp, id, lvl) THEN CallHandlers(hp, id, lvl) ELSE 0

-----------------------------------------------------------------------------
(* The state after "import src.utils.logger" *)

\* logging's own module state: root = RootLogger(WARNING), empty loggerDict.
PristineHeap == <<NewLogger(RootName, 30)>>
PristineDict == <<>>

\* from rich.logging import RichHandler: importing rich.logging creates the
\* logger "rich" (level NOTSET, no handler).
ImportRich == ManagerGetLogger(PristineDict, PristineHeap, RichName)

\* logger = setup_logger()   (name "redditsearch", level INFO)
ModuleLoad ==
    SetupLoggerResult(ImportRich.dict, ImportRich.heap, DefaultName, INFO)

NoLog == [handle |-> 0, threshold |-> 0, level |-> 0, lines |-> 0]

Init ==
    /\ loggerDict = ModuleLoad.dict
    /\ heap = ModuleLoad.heap
    /\ returned = (DefaultName :> {ModuleLoad.rv})
    /\ lastLevel = (DefaultName :> INFO)
    /\ lastByHandle = (ModuleLoad.rv :> INFO)
    /\ ncalls = 0
    /\ console = NoLog
    /\ pc = [t \in 1..NThreads |-> "idle"]
    /\ local = [t \in 1..NThreads |-> [name |-> <<>>, level |-> 0, logger |-> 0]]
    /\ env = <<>>
    /\ dotenv = [exists |-> FALSE, lines |-> <<>>]
    /\ snaps = <<>>
    /\ nmut = 0

-----------------------------------------------------------------------------
(* Sequential use of the logger factory *)

\* One call setup_logger(name, level), run to completion.
SetupLogger(name, level) ==
    /\ ncalls < MaxCalls
    /\ LET r == SetupLoggerResult(loggerDict, heap, name, level)
       IN  /\ loggerDict' = r.dict
           /\ heap' = r.heap
           /\ returned' = Put(returned, name,
                              (IF name \in DOMAIN returned
                               THEN returned[name] ELSE {}) \cup {r.rv})
           /\ lastLevel' = Put(lastLevel, name, level)
           /\ lastByHandle' = Put(lastByHandle, r.rv, level)
    /\ ncalls' = ncalls + 1
    /\ UNCHANGED <<console, thrVars, cfgVars>>

Handles == UNION {returned[n] : n \in DOMAIN returned}

\* handle.log(lvl, msg) through a handle some call has returned.
Log(h, lvl) ==
    /\ console' = [handle |-> h, threshold |-> heap[h].level, level |-> lvl,
                   lines |-> Emit(heap, h, lvl)]
    /\ UNCHANGED <<loggerDict, heap, returned, lastLevel, lastByHandle, ncalls,
                   thrVars, cfgVars>>

NextLogger ==
    \/ \E name \in LoggerNames, level \in Levels : SetupLogger(name, level)
    \/ \E h \in Handles, lvl \in MsgLevels : Log(h, lvl)

vars == <<loggerDict, heap, returned, lastLevel, lastByHandle, ncalls, console,
          pc, local, env, dotenv, snaps, nmut>>

SpecLogger == Init /\ [][NextLogger]_vars

-----------------------------------------------------------------------------
(* Threads inside setup_logger: one step per statement.  getLogger and      *)
(* addHandler each run under logging's module lock and are single steps;    *)
(* nothing in setup_logger holds a lock across its statements.              *)

Threads == 1..NThreads

Returned(name, h) ==
    Put(returned, name,
        (IF name \in DOMAIN returned THEN returned[name] ELSE {}) \cup {h})

\* A thread enters setup_logger(name, level).
T_Call(t, name, level) ==
    /\ pc[t] = "idle"
    /\ pc' = [pc EXCEPT ![t] = "getLogger"]
    /\ local' = [local EXCEPT ![t] = [name |-> name, level |-> level,
                                      logger |-> 0]]
    /\ UNCHANGED <<logVars, cfgVars>>

\* logger = logging.getLogger(name)
T_GetLogger(t) ==
    /\ pc[t] = "getLogger"
    /\ LET g == GetLogger(loggerDict, heap, local[t].name)
       IN  /\ loggerDict' = g.dict
           /\ heap' = g.heap
           /\ local' = [local EXCEPT ![t].logger = g.rv]
    /\ pc' = [pc EXCEPT ![t] = "setLevel"]
    /\ UNCHANGED <<returned, lastLevel, lastByHandle, ncalls, console, cfgVars>>

\* logger.setLevel(level)
T_SetLevel(t) ==
    /\ pc[t] = "setLevel"
    /\ heap' = SetLevel(heap, local[t].logger, local[t].level)
    /\ lastLevel' = Put(lastLevel, local[t].name, local[t].level)
    /\ lastByHandle' = Put(lastByHandle, local[t].logger, local[t].level)
    /\ pc' = [pc EXCEPT ![t] = "test"]
    /\ UNCHANGED <<loggerDict, returned, ncalls, console, local, cfgVars>>

\* if logger.handlers: return logger
T_TestHandlers(t) ==
    /\ pc[t] = "test"
    /\ IF HasHandlers(heap, local[t].logger)
       THEN /\ pc' = [pc EXCEPT ![t] = "done"]
            /\ returned' = Returned(local[t].name, local[t].logger)
       ELSE /\ pc' = [pc EXCEPT ![t] = "build"]
            /\ UNCHANGED returned
    /\ UNCHANGED <<loggerDict, heap, lastLevel, lastByHandle, ncalls, console,
                   local, cfgVars>>

\* handler = RichHandler(...); handler.setFormatter(formatter)
T_BuildHandler(t) ==
    /\ pc[t] = "build"
    /\ pc' = [pc EXCEPT ![t] = "add"]
    /\ UNCHANGED <<logVars, local, cfgVars>>

\* logger.addHandler(handler); return logger
T_AddHandler(t) ==
    /\ pc[t] = "add"
    /\ heap' = AddHandler(heap, local[t].logger, RichHandler)
    /\ returned' = Returned(local[t].name, local[t].logger)
    /\ pc' = [pc EXCEPT ![t] = "done"]
    /\ UNCHANGED <<loggerDict, lastLevel, lastByHandle, ncalls, console, local,
                   cfgVars>>

NextRace ==
    \/ \E t \in Threads, name \in LoggerNames, level \in Levels :
           T_Call(t, name, level)
    \/ \E t \in Threads : T_GetLogger(t)
    \/ \E t \in Threads : T_SetLevel(t)
    \/ \E t \in Threads : T_TestHandlers(t)
    \/ \E t \in Threads : T_BuildHandler(t)
    \/ \E t \in Threads : T_AddHandler(t)

SpecRace == Init /\ [][NextRace]_vars

-----------------------------------------------------------------------------
(* The settings schema: class Settings *)

FieldOrder ==
    <<"REDDIT_CLIENT_ID", "REDDIT_CLIENT_SECRET", "REDDIT_USER_AGENT",
      "DEFAULT_SUBREDDITS", "DEFAULT_KEYWORDS", "DATABASE_PATH", "OUTPUT_DIR">>

Fields == {FieldOrder[i] : i \in 1..Len(FieldOrder)}

\* The List[str] fields: their external text is decoded as JSON.
FieldIsComplex(f) == f \in {"DEFAULT_SUBREDDITS", "DEFAULT_KEYWORDS"}

\* Variant: the two path defaults are exchanged.
DefaultValueSlip(f) ==
    CASE f = "REDDIT_CLIENT_ID" -> ""
      [] f = "REDDIT_CLIENT_SECRET" -> ""
      [] f = "REDDIT_USER_AGENT" -> "redditsearch/0.1.0"
      [] f = "DEFAULT_SUBREDDITS" -> <<"SaaS", "Entrepreneur", "startups">>
      [] f = "DEFAULT_KEYWORDS" -> <<"pay for", "need a tool", "wish there was">>
      [] f = "DATABASE_PATH" -> "output"
      [] f = "OUTPUT_DIR" -> "data/redditsearch.db"

DefaultValue(f) ==
    CASE f = "REDDIT_CLIENT_ID" -> ""
      [] f = "REDDIT_CLIENT_SECRET" -> ""
      [] f = "REDDIT_USER_AGENT" -> "redditsearch/0.1.0"
      [] f = "DEFAULT_SUBREDDITS" -> <<"SaaS", "Entrepreneur", "startups">>
      [] f = "DEFAULT_KEYWORDS" -> <<"pay for", "need a tool", "wish there was">>
      [] f = "DATABASE_PATH" -> "data/redditsearch.db"
      [] f = "OUTPUT_DIR" -> "output"

\* model_config: case_sensitive=True, extra="ignore"
CaseSensitive == TRUE
ExtraMode == "ignore"

\* Keys outside the schema that the model places in env and in .env.
ExtraKeys == {"reddit_client_id", "Default_Keywords", "FOO"}
Keys == Fields \cup ExtraKeys

\* str.lower() on the keys of the model.
Lower(k) ==
    CASE k \in {"REDDIT_CLIENT_ID", "reddit_client_id"} -> "reddit_client_id"
      [] k = "REDDIT_CLIENT_SECRET" -> "reddit_client_secret"
      [] k = "REDDIT_USER_AGENT" -> "reddit_user_agent"
      [] k = "DEFAULT_SUBREDDITS" -> "default_subreddits"
      [] k \in {"DEFAULT_KEYWORDS", "Default_Keywords"} -> "default_keywords"
      [] k = "DATABASE_PATH" -> "database_path"
      [] k = "OUTPUT_DIR" -> "output_dir"
      [] k = "FOO" -> "foo"
      [] OTHER -> k

\* Names are compared as written when case_sensitive is set, lowered otherwise.
ApplyCaseSensitive(k) == IF CaseSensitive THEN k ELSE Lower(k)

\* The texts the model supplies as values.
T_Empty == <<>>
T_Plain == <<"x">>
T_List1 == <<"[", "\"", "a", "\"", "]">>
T_List2 == <<"[", "\"", "a", "\"", ",", "\"", "b", "\"", "]">>
T_ListEmpty == <<"[", "]">>
T_Null == <<"n", "u", "l", "l">>
T_JsonStr == <<"\"", "a", "\"">>
T_Unclosed == <<"[", "\"", "a", "\"">>
T_ListNum == <<"[", "1", "]">>

Texts == {T_Empty, T_Plain, T_List1, T_List2, T_ListEmpty, T_Null, T_JsonStr,
          T_Unclosed, T_ListNum}

T_OpenQuote == <<"\"", "a">>

\* The texts written after KEY= on a line of .env.  A null entry of the .env
\* file is treated differently across releases of the loader; the model
\* writes no such entry.
DotenvTexts == (Texts \ {T_Null}) \cup {T_OpenQuote}

-----------------------------------------------------------------------------
(* The settings loader: the sources, their merge and the validation *)

SourceOk(data) == [ok |-> TRUE, data |-> data, error |-> "", fields |-> {}]
SourceError(f) ==
    [ok |-> FALSE, data |-> <<>>, error |-> "SettingsError", fields |-> {f}]

\* parse_env_vars: the variables keyed by their names as compared.
ParseEnvVars(vs) ==
    [k2 \in {ApplyCaseSensitive(k) : k \in DOMAIN vs} |->
        vs[CHOOSE k \in DOMAIN vs : ApplyCaseSensitive(k) = k2]]

\* The loop over model_fields of an env-style source, from field i on:
\* look the field up, decode a complex field's text as JSON, keep a value
\* that is not None.  A text that is no JSON raises SettingsError.
RECURSIVE SourceFields(_, _, _)
SourceFields(vs, i, data) ==
    IF i > Len(FieldOrder) THEN SourceOk(data)
    ELSE LET f == FieldOrder[i]
             key == ApplyCaseSensitive(f)
         IN  IF key \notin DOMAIN vs THEN SourceFields(vs, i + 1, data)
             ELSE IF FieldIsComplex(f)
             THEN LET j == JsonLoads(vs[key])
                  IN  IF ~j.ok THEN SourceError(f)
                      ELSE IF j.val.t = "null"
                      THEN SourceFields(vs, i + 1, data)
                      ELSE SourceFields(vs, i + 1, Put(data, f, j.val))
             ELSE SourceFields(vs, i + 1,
                               Put(data, f, [t |-> "str", v |-> Join(vs[key])]))

\* Variant: the environment is not consulted (a plain model, not a settings
\* class).
EnvSourceUnread(e) == SourceOk(<<>>)

\* EnvSettingsSource.__call__
EnvSource(e) == SourceFields(ParseEnvVars(e), 1, <<>>)

\* The blanks of a line: white space other than the line end.
Blanks == {" "}

\* str.lstrip / str.rstrip for the blanks of the model's alphabet.
RECURSIVE LStrip(_)
LStrip(s) == IF s # <<>> /\ Head(s) \in Blanks THEN LStrip(Tail(s)) ELSE s

RECURSIVE RStrip(_)
RStrip(s) ==
    IF s # <<>> /\ s[Len(s)] \in Blanks
    THEN RStrip(SubSeq(s, 1, Len(s) - 1))
    ELSE s

\* Position of the first character c of s at or after i, 0 when none.
RECURSIVE FindChar(_, _, _)
FindChar(s, c, i) ==
    IF i > Len(s) THEN 0
    ELSE IF s[i] = c THEN i
    ELSE FindChar(s, c, i + 1)

\* The number of line ends in s.
RECURSIVE CountNewlines(_)
CountNewlines(s) ==
    IF s = <<>> THEN 0
    ELSE (IF Head(s) = "\n" THEN 1 ELSE 0) + CountNewlines(Tail(s))

\* The characters of the keys of the model, as they stand in the file.
KeyChars(k) ==
    CASE k = "REDDIT_CLIENT_ID" ->
             <<"R", "E", "D", "D", "I", "T", "_", "C", "L", "I", "E", "N", "T", "_", "I", "D">>
      [] k = "REDDIT_CLIENT_SECRET" ->
             <<"R", "E", "D", "D", "I", "T", "_", "C", "L", "I", "E", "N", "T", "_", "S", "E", "C", "R", "E", "T">>
      [] k = "REDDIT_USER_AGENT" ->
             <<"R", "E", "D", "D", "I", "T", "_", "U", "S", "E", "R", "_", "A", "G", "E", "N", "T">>
      [] k = "DEFAULT_SUBREDDITS" ->
             <<"D", "E", "F", "A", "U", "L", "T", "_", "S", "U", "B", "R", "E", "D", "D", "I", "T", "S">>
      [] k = "DEFAULT_KEYWORDS" ->
             <<"D", "E", "F", "A", "U", "L", "T", "_", "K", "E", "Y", "W", "O", "R", "D", "S">>
      [] k = "DATABASE_PATH" ->
             <<"D", "A", "T", "A", "B", "A", "S", "E", "_", "P", "A", "T", "H">>
      [] k = "OUTPUT_DIR" ->
             <<"O", "U", "T", "P", "U", "T", "_", "D", "I", "R">>
      [] k = "reddit_client_id" ->
             <<"r", "e", "d", "d", "i", "t", "_", "c", "l", "i", "e", "n", "t", "_", "i", "d">>
      [] k = "Default_Keywords" ->
             <<"D", "e", "f", "a", "u", "l", "t", "_", "K", "e", "y", "w", "o", "r", "d", "s">>
      [] k = "FOO" ->
             <<"F", "O", "O">>

\* The text of the file: the lines KEY=text in their order, each ended by a
\* line end.
RECURSIVE FileText(_)
FileText(lines) ==
    IF lines = <<>> THEN <<>>
    ELSE KeyChars(Head(lines).key) \o <<"=">> \o Head(lines).text \o <<"\n">>
             \o FileText(Tail(lines))

\* The .env parser from line i on (lines KEY=text; texts without backslash,
\* single quote, "#" and "$").  Blanks after "=" are skipped.  A text opening
\* with a double quote is a quoted value: it runs to the next double quote of
\* the file, across line ends, and only blanks may stand between that quote
\* and the end of its line; otherwise the binding is invalid and the parser
\* resumes at the line after the one it stopped in.  With no closing quote
\* in the file only line i is invalid.  Any other text is taken as written
\* with trailing blanks removed.  A later binding of a key replaces an
\* earlier one.
RECURSIVE ParseBindings(_, _, _)
ParseBindings(lines, i, acc) ==
    IF i > Len(lines) THEN acc
    ELSE LET k == lines[i].key
             t == LStrip(lines[i].text)
         IN  IF t = <<>> THEN ParseBindings(lines, i + 1, Put(acc, k, <<>>))
             ELSE IF Head(t) # "\""
             THEN ParseBindings(lines, i + 1, Put(acc, k, RStrip(t)))
             ELSE LET after == Tail(t) \o <<"\n">>
                                   \o FileText(SubSeq(lines, i + 1, Len(lines)))
                      q == FindChar(after, "\"", 1)
                  IN  IF q = 0 THEN ParseBindings(lines, i + 1, acc)
                      ELSE LET val == SubSeq(after, 1, q - 1)
                               j == i + CountNewlines(val)
                               nl == FindChar(after, "\n", q + 1)
                           IN  IF LStrip(SubSeq(after, q + 1, nl - 1)) = <<>>
                               THEN ParseBindings(lines, j + 1,
                                                  Put(acc, k, val))
                               ELSE ParseBindings(lines, j + 1, acc)

\* dotenv_values(".env"): the mapping read from the file.
DotenvValues(lines) == ParseBindings(lines, 1, <<>>)

\* The entries of .env that no field uses and that are not empty.
DotenvExtras(vs, data) ==
    {k \in DOMAIN vs :
        /\ vs[k] # <<>>
        /\ k \notin DOMAIN data
        /\ \A f \in Fields : k # ApplyCaseSensitive(f)}

\* DotEnvSettingsSource.__call__: the file is parsed into its variables; a
\* missing file gives none.
DotenvSource(d) ==
    LET vs == IF d.exists THEN ParseEnvVars(DotenvValues(d.lines)) ELSE <<>>
        r == SourceFields(vs, 1, <<>>)
        extras == DotenvExtras(vs, r.data)
    IN  IF ~r.ok THEN r
        ELSE SourceOk([k \in (DOMAIN r.data) \cup extras |->
                          IF k \in DOMAIN r.data THEN r.data[k]
                          ELSE [t |-> "str", v |-> Join(vs[k])]])

\* deep_update(low, high): the keys of both, high winning.
DeepUpdate(low, high) ==
    [k \in (DOMAIN low) \cup (DOMAIN high) |->
        IF k \in DOMAIN high THEN high[k] ELSE low[k]]

\* Whether a decoded value is of the field's declared type.
ValueIsValid(f, v) ==
    IF FieldIsComplex(f)
    THEN v.t = "list" /\ \A i \in 1..Len(v.v) : v.v[i].t = "str"
    ELSE v.t = "str"

\* The field's value as the snapshot holds it.
FieldValue(f, v) ==
    IF FieldIsComplex(f) THEN [i \in 1..Len(v.v) |-> v.v[i].v] ELSE v.v

Snapshot(values) ==
    [ok |-> TRUE, values |-> values, error |-> "", fields |-> {}]
Failure(error, fields) ==
    [ok |-> FALSE, values |-> <<>>, error |-> error, fields |-> fields]

\* The model validation of the merged state: every supplied field is checked
\* against its type, a missing field takes its default, and a key outside
\* the schema is dropped, kept or refused according to "extra".
Validate(state) ==
    LET bad == {f \in Fields \cap DOMAIN state : ~ValueIsValid(f, state[f])}
        extra == (DOMAIN state) \ Fields
        kept == IF ExtraMode = "allow" THEN extra ELSE {}
    IN  IF bad # {} \/ (ExtraMode = "forbid" /\ extra # {})
        THEN Failure("ValidationError",
                     bad \cup (IF ExtraMode = "forbid" THEN extra ELSE {}))
        ELSE Snapshot([k \in Fields \cup kept |->
                          IF k \notin DOMAIN state THEN DefaultValue(k)
                          ELSE IF k \in Fields THEN FieldValue(k, state[k])
                          ELSE state[k].v])

\* Settings(): the environment source, then the .env source, merged with the
\* environment winning, then validated.
Settings(e, d) ==
    LET es == EnvSource(e)
        ds == DotenvSource(d)
    IN  IF ~es.ok THEN Failure(es.error, es.fields)
        ELSE IF ~ds.ok THEN Failure(ds.error, ds.fields)
        ELSE Validate(DeepUpdate(ds.data, es.data))

-----------------------------------------------------------------------------
(* Operations on the configuration *)

\* monkeypatch.setenv(k, v) / os.environ[k] = v
SetEnv(k, v) ==
    /\ env' = Put(env, k, v)
    /\ nmut' = nmut + 1
    /\ UNCHANGED <<dotenv, snaps, logVars, thrVars>>

\* monkeypatch.delenv(k) / del os.environ[k]
DelEnv(k) ==
    /\ k \in DOMAIN env
    /\ env' = [x \in (DOMAIN env) \ {k} |-> env[x]]
    /\ nmut' = nmut + 1
    /\ UNCHANGED <<dotenv, snaps, logVars, thrVars>>

\* The line KEY=v is written to .env, creating the file if needed: the key's
\* line is rewritten where it stands, a new key's line is added at the end.
WriteDotenv(k, v) ==
    /\ dotenv' =
           [exists |-> TRUE,
            lines |->
                IF \E i \in DOMAIN dotenv.lines : dotenv.lines[i].key = k
                THEN [i \in DOMAIN dotenv.lines |->
                         IF dotenv.lines[i].key = k
                         THEN [key |-> k, text |-> v]
                         ELSE dotenv.lines[i]]
                ELSE Append(dotenv.lines, [key |-> k, text |-> v])]
    /\ nmut' = nmut + 1
    /\ UNCHANGED <<env, snaps, logVars, thrVars>>

\* Variant: get_settings wrapped in lru_cache, which keeps the first snapshot
\* that was returned.
GetSettingsCached ==
    /\ snaps' = Append(snaps,
                       [env |-> env, dotenv |-> dotenv,
                        res |-> IF \E c \in 1..Len(snaps) : snaps[c].res.ok
                                THEN snaps[CHOOSE c \in 1..Len(snaps) :
                                               snaps[c].res.ok].res
                                ELSE Settings(env, dotenv)])
    /\ UNCHANGED <<env, dotenv, nmut, logVars, thrVars>>

\* get_settings(): return Settings()
GetSettings ==
    /\ snaps' = Append(snaps, [env |-> env, dotenv |-> dotenv,
                               res |-> Settings(env, dotenv)])
    /\ UNCHANGED <<env, dotenv, nmut, logVars, thrVars>>

\* Arrange, then act: the environment and .env are set up, then the provider
\* is invoked once.
Arranging == snaps = <<>> /\ nmut < MaxEntries

NextSettings ==
    \/ \E k \in Keys, v \in Texts : Arranging /\ SetEnv(k, v)
    \/ \E k \in Keys, v \in DotenvTexts : Arranging /\ WriteDotenv(k, v)
    \/ snaps = <<>> /\ GetSettings

SpecSettings == Init /\ [][NextSettings]_vars

\* Environment changes interleaved with calls of the provider.
FreshKeys == {"REDDIT_CLIENT_ID", "DEFAULT_SUBREDDITS", "OUTPUT_DIR", "FOO"}
FreshTexts == {T_Empty, T_Plain, T_List1, T_Unclosed}

NextFresh ==
    \/ \E k \in FreshKeys, v \in FreshTexts :
           nmut < MaxMutations /\ SetEnv(k, v)
    \/ \E k \in FreshKeys : nmut < MaxMutations /\ DelEnv(k)
    \/ Len(snaps) < MaxSnapshots /\ GetSettings

SpecFresh == Init /\ [][NextFresh]_vars

-----------------------------------------------------------------------------
(* Claims about the logger factory *)

LoggerIds == 1..Len(heap)

\* C1: after any sequence of setup_logger calls, every requested name has had
\* one and the same handle returned by all of its calls, that handle carries
\* exactly one handler, and no logger carries more than one handler.
C1_SameHandleOneSink ==
    /\ \A n \in DOMAIN returned :
           /\ Cardinality(returned[n]) = 1
           /\ \A h \in returned[n] : Len(heap[h].handlers) = 1
    /\ \A id \in LoggerIds : Len(heap[id].handlers) <= 1

\* C1 witness: two further calls, both for "app.db", after module load.
C1_Witness ==
    /\ ncalls = 2
    /\ DOMAIN returned = {DefaultName, AppDbName}

\* C7 (as claimed): when two threads are inside setup_logger for the same
\* name, the handle of that name never carries two handlers, and once both
\* have returned it carries exactly one.
C7_RaceOneSink ==
    \A t \in Threads, u \in Threads :
        ( /\ t # u
          /\ pc[t] \notin {"idle", "getLogger"}
          /\ pc[u] \notin {"idle", "getLogger"}
          /\ local[t].name = local[u].name ) =>
            /\ Len(heap[local[t].logger].handlers) <= 1
            /\ (pc[t] = "done" /\ pc[u] = "done") =>
                   Len(heap[local[t].logger].handlers) = 1

\* C8 (as claimed): a message logged through a handle whose threshold is INFO
\* is written exactly once when its level is at or above INFO and not at all
\* when it is below.
C8_EmittedOnce ==
    (console # NoLog /\ console.threshold = INFO) =>
        console.lines = (IF console.level >= INFO THEN 1 ELSE 0)

\* C10 (as claimed): the threshold of every requested name's handle is the
\* level passed in the latest call for that name.
C10_LatestLevelByName ==
    \A n \in DOMAIN lastLevel :
        \A h \in returned[n] : heap[h].level = lastLevel[n]

\* C10 (amended): the threshold of every returned handle is the level passed
\* in the latest call that resolved to that handle, whatever name it used.
C10_LatestLevelByHandle ==
    /\ DOMAIN lastByHandle = Handles
    /\ \A h \in DOMAIN lastByHandle : heap[h].level = lastByHandle[h]

\* C10 witness: the default handle, configured at module load with INFO, has
\* been reconfigured by a later call and carries that call's level.
C10_Witness ==
    /\ ncalls >= 1
    /\ lastByHandle[ModuleLoad.rv] # INFO
    /\ heap[ModuleLoad.rv].level = lastByHandle[ModuleLoad.rv]
    /\ Len(heap[ModuleLoad.rv].handlers) = 1

-----------------------------------------------------------------------------
(* Claims about the settings provider *)

\* The defaults as the specification documents them.
DocumentedDefaults ==
    [REDDIT_CLIENT_ID |-> "",
     REDDIT_CLIENT_SECRET |-> "",
     REDDIT_USER_AGENT |-> "redditsearch/0.1.0",
     DEFAULT_SUBREDDITS |-> <<"SaaS", "Entrepreneur", "startups">>,
     DEFAULT_KEYWORDS |-> <<"pay for", "need a tool", "wish there was">>,
     DATABASE_PATH |-> "data/redditsearch.db",
     OUTPUT_DIR |-> "output"]

\* The two sequence-typed fields of the specification's data model.
SequenceFields == {"DEFAULT_SUBREDDITS", "DEFAULT_KEYWORDS"}

Calls == 1..Len(snaps)

\* Whether text t can be coerced to the declared type of field f: any text
\* for a string field, the JSON text of a list of strings for a sequence.
Coercible(f, t) ==
    f \in SequenceFields =>
        LET j == JsonLoads(t)
        IN  /\ j.ok
            /\ j.val.t = "list"
            /\ \A i \in 1..Len(j.val.v) : j.val.v[i].t = "str"

\* Whether value x is what text t denotes for field f.
Denotes(f, t, x) ==
    /\ Coercible(f, t)
    /\ IF f \in SequenceFields
       THEN LET j == JsonLoads(t)
            IN  x = [i \in 1..Len(j.val.v) |-> j.val.v[i].v]
       ELSE x = Join(t)

\* The entries of .env as its format denotes them: quoted values without
\* their quotes, invalid bindings left out.
FileEntries(d) == IF d.exists THEN DotenvValues(d.lines) ELSE <<>>

FileHas(d, f) == f \in DOMAIN FileEntries(d)

\* C2: a call made with no recognized environment variable and no .env file
\* returns a snapshot (no error) whose seven fields are the documented
\* defaults.
C2_Defaults ==
    \A c \in Calls :
        ((DOMAIN snaps[c].env) \cap Fields = {} /\ ~snaps[c].dotenv.exists) =>
            /\ snaps[c].res.ok
            /\ DOMAIN snaps[c].res.values = Fields
            /\ \A f \in Fields : snaps[c].res.values[f] = DocumentedDefaults[f]

\* C2 witness: the provider was invoked with nothing configured.
C2_Witness ==
    /\ Len(snaps) = 1
    /\ snaps[1].env = <<>>
    /\ ~snaps[1].dotenv.exists
    /\ snaps[1].res.ok

\* C3 (as claimed): in every snapshot, each field holds the environment value
\* if the variable is set, otherwise the .env value if the file has the key,
\* otherwise the documented default.
C3_Precedence ==
    \A c \in Calls :
        snaps[c].res.ok =>
            \A f \in Fields :
                IF f \in DOMAIN snaps[c].env
                THEN Denotes(f, snaps[c].env[f], snaps[c].res.values[f])
                ELSE IF FileHas(snaps[c].dotenv, f)
                THEN Denotes(f, FileEntries(snaps[c].dotenv)[f],
                             snaps[c].res.values[f])
                ELSE snaps[c].res.values[f] = DocumentedDefaults[f]

\* C4: with no .env file and exactly one recognized variable set, to a text
\* valid for its field, the snapshot holds that value in that field and the
\* documented default in each of the other six.
C4_SingleOverride ==
    \A c \in Calls :
        \A f \in Fields :
            ( /\ ~snaps[c].dotenv.exists
              /\ (DOMAIN snaps[c].env) \cap Fields = {f}
              /\ Coercible(f, snaps[c].env[f]) ) =>
                /\ snaps[c].res.ok
                /\ Denotes(f, snaps[c].env[f], snaps[c].res.values[f])
                /\ \A g \in Fields \ {f} :
                       snaps[c].res.values[g] = DocumentedDefaults[g]

\* C4 witness: only DEFAULT_SUBREDDITS is set, to ["a","b"], and the snapshot
\* holds the two-element list.
C4_Witness ==
    /\ Len(snaps) = 1
    /\ ~snaps[1].dotenv.exists
    /\ DOMAIN snaps[1].env = {"DEFAULT_SUBREDDITS"}
    /\ snaps[1].env["DEFAULT_SUBREDDITS"] = T_List2
    /\ snaps[1].res.ok
    /\ snaps[1].res.values["DEFAULT_SUBREDDITS"] = <<"a", "b">>

\* The variables of a mapping that the schema recognizes.
Recognized(vs) == [k \in (DOMAIN vs) \cap Fields |-> vs[k]]

\* The lines of a file whose key the schema recognizes.
IsRecognizedLine(l) == l.key \in Fields
RecognizedLines(ls) == SelectSeq(ls, IsRecognizedLine)

\* C6 (as claimed): keys outside the seven recognized names, in the
\* environment or on lines of .env, change nothing: the outcome is the one
\* obtained without them, and a snapshot has exactly the seven fields.
C6_UnknownIgnored ==
    \A c \in Calls :
        /\ snaps[c].res =
               Settings(Recognized(snaps[c].env),
                        [snaps[c].dotenv EXCEPT !.lines = RecognizedLines(@)])
        /\ snaps[c].res.ok => DOMAIN snaps[c].res.values = Fields

\* The sequence fields for which a call was given a text, in the environment
\* or in .env, that cannot be coerced to a list of strings.
Offending(c) ==
    {f \in SequenceFields :
        \/ f \in DOMAIN snaps[c].env /\ ~Coercible(f, snaps[c].env[f])
        \/ FileHas(snaps[c].dotenv, f)
               /\ ~Coercible(f, FileEntries(snaps[c].dotenv)[f])}

\* C9 (as claimed): a call given a text that cannot be coerced to its field's
\* type returns no snapshot: it fails with an error naming such a field.
C9_InvalidRaises ==
    \A c \in Calls :
        Offending(c) # {} =>
            /\ ~snaps[c].res.ok
            /\ snaps[c].res.fields \cap Offending(c) # {}

\* Every snapshot reflects the environment as it was at its own call: each
\* field holds the value its variable had then, or the documented default.
C5_SnapshotsReflectCall ==
    \A c \in Calls :
        snaps[c].res.ok =>
            \A f \in Fields :
                IF f \in DOMAIN snaps[c].env
                THEN Denotes(f, snaps[c].env[f], snaps[c].res.values[f])
                ELSE snaps[c].res.values[f] = DocumentedDefaults[f]

\* A step changes no snapshot that was already returned.
C5_EarlierSnapshotsKept ==
    /\ Len(snaps') >= Len(snaps)
    /\ \A c \in Calls : snaps'[c] = snaps[c]

\* C5: get_settings does not cache: under any interleaving of environment
\* changes and calls, every snapshot reflects the environment as it was at
\* its own call, and snapshots returned earlier keep their values.
C5_NoCaching ==
    /\ []C5_SnapshotsReflectCall
    /\ [][C5_EarlierSnapshotsKept]_vars

\* C5 witness: two calls with a change of REDDIT_CLIENT_ID in between; the
\* first snapshot holds the default, the second the new value.
C5_Witness ==
    /\ Len(snaps) = 2
    /\ snaps[1].res.ok /\ snaps[2].res.ok
    /\ "REDDIT_CLIENT_ID" \notin DOMAIN snaps[1].env
    /\ "REDDIT_CLIENT_ID" \in DOMAIN snaps[2].env
    /\ snaps[1].res.values["REDDIT_CLIENT_ID"] = ""
    /\ snaps[2].res.values["REDDIT_CLIENT_ID"] = "x"

=============================================================================
